---- MODULE Spec2Model ----
(***************************************************************************)
(* Model of scripts/setup-databases.py: the database provisioning helper   *)
(* of DungeonGate.  One run of main() is a sequential state machine; each  *)
(* external command (run_command), each time.sleep and each file-system    *)
(* call is one step whose outcome is chosen by the environment.            *)
(***************************************************************************)
EXTENDS Integers, Sequences, FiniteSets, TLC

VARIABLES
    databases,    \* main: the list iterated by the for loop (line 207-210)
    testAfter,    \* args.test
    wantReplica,  \* args.replica
    platform,     \* sys.platform, reduced to "darwin" / "linux"
    cwdWritable,  \* the working directory accepts new entries
    envExists,    \* .env.example already exists (and is writable)
    sqliteDir,    \* test-data/sqlite: "absent", "writable" or "readonly"
    pc,           \* position of the run
    idx,          \* index of the current element of databases
    success,      \* main: the accumulated result
    exitCode,     \* process exit status, -1 while running
    retv,         \* value returned by the provisioner that just finished
    attempt,      \* iterations of the wait loop started so far
    createIdx,    \* next resource-creation command of the current backend
    trace,        \* commands and sleeps issued in the current loop iteration
    probeTrue,    \* a readiness probe returned true in this provisioning
    createFails,  \* creation commands that failed in this provisioning
    allOk,        \* every command of this provisioning exited with status 0
    why,          \* message printed before a return False: the failure's name
    invoked,      \* backends whose provisioner main has called, in order
    provRet,      \* per backend: "none" or the Provision Result main received
    verRet,       \* per backend: "none", "ok", "fail" from test_connection
    runNo,        \* invocations of the script so far, this one included
    prevOk,       \* backends that returned Success in the previous invocation
    call          \* the last call of run_command made on its own, with its result

vars == <<databases, testAfter, wantReplica, platform, cwdWritable, envExists,
          sqliteDir, pc, idx, success, exitCode, retv, attempt, createIdx,
          trace, probeTrue, createFails, allOk, why, invoked, provRet, verRet,
          runNo, prevOk, call>>

inputs == <<databases, testAfter, wantReplica, platform>>

fs == <<cwdWritable, envExists, sqliteDir>>

\* what one provisioning keeps about itself
local == <<retv, attempt, createIdx, trace, probeTrue, createFails, allOk, why>>

\* what main keeps across the loop, and the invocation count
outer == <<idx, success, exitCode, invoked, provRet, verRet, runNo, prevOk>>

Backends == {"sqlite", "postgresql", "mysql"}

ClientServer == {"postgresql", "mysql"}

\* argparse choices, resolved as main resolves them
AllDatabases == <<"sqlite", "postgresql", "mysql">>

Selections == {AllDatabases, <<"sqlite">>, <<"postgresql">>, <<"mysql">>}

\* range(30) of the wait loops
MaxAttempts == 30

\* how many times in a row the script is invoked
MaxRuns == 2

\* exit statuses the environment may give a command
ExitStatuses == {0, 1}

\* standard output of a command, as a sequence of characters
Stdouts == {<<>>, <<" ", "1", " ">>}

\* longest standard output given to a call of run_command made on its own
MaxOutLen == 3

\* exit statuses and outputs given to a call of run_command made on its own
CmdExitStatuses == {0, 1, 2, 127}

CmdStdouts == UNION {[1..n -> {" ", "1"}] : n \in 0..MaxOutLen}

----------------------------------------------------------------------------
(* Commands *)

WhichCmd(db) == IF db = "postgresql" THEN "which psql" ELSE "which mysql"

ProbeCmd(db) ==
    IF db = "postgresql" THEN "pg_isready -h localhost -p 5432"
    ELSE "mysqladmin ping -h localhost"

StartCmd(db, plat) ==
    IF plat = "darwin"
    THEN (IF db = "postgresql" THEN "brew services start postgresql"
          ELSE "brew services start mysql")
    ELSE (IF db = "postgresql" THEN "sudo systemctl start postgresql"
          ELSE "sudo systemctl start mysql")

CreateCmds(db) ==
    IF db = "postgresql"
    THEN << "createuser -h localhost dungeongate_test",
            "createdb -h localhost -O dungeongate_test dungeongate_test",
            "psql -h localhost -c ALTER USER dungeongate_test PASSWORD" >>
    ELSE << "mysql -h localhost -e CREATE DATABASE IF NOT EXISTS",
            "mysql -h localhost -e CREATE USER IF NOT EXISTS",
            "mysql -h localhost -e GRANT ALL PRIVILEGES",
            "mysql -h localhost -e FLUSH PRIVILEGES" >>

TestCmd(db) ==
    IF db = "postgresql" THEN "psql -h localhost -U dungeongate_test -c SELECT 1"
    ELSE "mysql -h localhost -u dungeongate_mysql -e SELECT 1"

SleepCmd == "time.sleep(1)"

StartCmds == {StartCmd(db, p) : db \in ClientServer, p \in {"darwin", "linux"}}

ProbeCmds == {ProbeCmd(db) : db \in ClientServer}

AllCreateCmds ==
    UNION {{CreateCmds(db)[i] : i \in DOMAIN CreateCmds(db)} : db \in ClientServer}

Count(seq, set) == Cardinality({i \in DOMAIN seq : seq[i] \in set})

----------------------------------------------------------------------------
(* run_command *)

RECURSIVE lstrip(_)
lstrip(s) == IF s # <<>> /\ Head(s) = " " THEN lstrip(Tail(s)) ELSE s

RECURSIVE rstrip(_)
rstrip(s) ==
    IF s # <<>> /\ s[Len(s)] = " " THEN rstrip(SubSeq(s, 1, Len(s) - 1)) ELSE s

strip(s) == rstrip(lstrip(s))

\* subprocess.run(cmd, shell=True, check=check, ...) followed by the return
\* statements: rc and stdout are what the command produced.
run_command_IgnoresCheck(rc, stdout, check, capture_output) ==
    IF capture_output
    THEN [raised |-> FALSE, kind |-> "str", value |-> strip(stdout)]
    ELSE [raised |-> FALSE, kind |-> "bool", value |-> (rc = 0)]

\* raised: CalledProcessError left the function; kind: the Python type of
\* the returned value, "str" or "bool".
run_command(rc, stdout, check, capture_output) ==
    IF check /\ rc # 0
    THEN [raised |-> TRUE, kind |-> "none", value |-> FALSE]
    ELSE IF capture_output
         THEN [raised |-> FALSE, kind |-> "str", value |-> strip(stdout)]
         ELSE [raised |-> FALSE, kind |-> "bool", value |-> (rc = 0)]

\* Python's truth value of what a call returned, as "if not run_command(...)"
\* reads it.
Truthy(r) == IF r.kind = "str" THEN r.value # <<>> ELSE r.value

\* The value of a tolerant, non-capturing call, as every call site makes it.
Tolerant(rc, out) == run_command(rc, out, FALSE, FALSE).value

----------------------------------------------------------------------------
(* Initial states: one invocation of the script *)

NoResults == [b \in Backends |-> "none"]

NoCall == [made |-> FALSE, rc |-> 0, stdout |-> <<>>, check |-> FALSE,
           capture_output |-> FALSE,
           result |-> [raised |-> FALSE, kind |-> "none", value |-> FALSE]]

Init ==
    /\ databases \in Selections
    /\ testAfter \in BOOLEAN
    /\ wantReplica \in BOOLEAN
    /\ platform \in {"darwin", "linux"}
    /\ cwdWritable \in BOOLEAN
    /\ envExists \in BOOLEAN
    /\ sqliteDir \in {"absent", "writable", "readonly"}
    /\ pc = "create_env_file"
    /\ idx = 1
    /\ success = TRUE
    /\ exitCode = -1
    /\ retv = FALSE
    /\ attempt = 0
    /\ createIdx = 1
    /\ trace = <<>>
    /\ probeTrue = FALSE
    /\ createFails = 0
    /\ allOk = TRUE
    /\ why = ""
    /\ invoked = <<>>
    /\ provRet = NoResults
    /\ verRet = NoResults
    /\ runNo = 1
    /\ prevOk = {}
    /\ call = NoCall

cur == databases[idx]

\* An exception nobody catches ends the interpreter with status 1.
Crash ==
    /\ pc' = "crashed"
    /\ exitCode' = 1

----------------------------------------------------------------------------
(* main, up to the loop *)

\* open(".env.example", "w") and the write
create_env_file ==
    /\ pc = "create_env_file"
    /\ IF cwdWritable \/ envExists
       THEN /\ envExists' = TRUE
            /\ pc' = "loop"
            /\ UNCHANGED exitCode
       ELSE /\ Crash
            /\ UNCHANGED envExists
    /\ UNCHANGED <<inputs, call, cwdWritable, sqliteDir, local, idx, success, invoked,
                   provRet, verRet, runNo, prevOk>>

\* Top of the for loop: pick the provisioner for the next database.
Dispatch ==
    /\ pc = "loop"
    /\ idx <= Len(databases)
    /\ invoked' = Append(invoked, cur)
    /\ pc' = IF cur = "sqlite" THEN "setup_sqlite" ELSE "which"
    /\ trace' = <<>>
    /\ attempt' = 0
    /\ createIdx' = 1
    /\ probeTrue' = FALSE
    /\ createFails' = 0
    /\ allOk' = TRUE
    /\ why' = ""
    /\ UNCHANGED <<inputs, call, fs, retv, idx, success, exitCode, provRet, verRet,
                   runNo, prevOk>>

----------------------------------------------------------------------------
(* setup_sqlite *)

\* os.makedirs("test-data/sqlite", exist_ok=True) raises unless this holds
makedirs_ok == sqliteDir # "absent" \/ cwdWritable

setup_sqlite_NoReturnTrue ==
    /\ pc = "setup_sqlite"
    /\ IF makedirs_ok
       THEN /\ sqliteDir' = IF sqliteDir = "absent" THEN "writable" ELSE sqliteDir
            /\ retv' = FALSE
            /\ pc' = "return"
            /\ UNCHANGED exitCode
       ELSE /\ Crash
            /\ UNCHANGED <<sqliteDir, retv>>
    /\ UNCHANGED <<inputs, call, cwdWritable, envExists, attempt, createIdx, trace,
                   probeTrue, createFails, allOk, why, idx, success, invoked,
                   provRet, verRet, runNo, prevOk>>

setup_sqlite ==
    /\ pc = "setup_sqlite"
    /\ IF makedirs_ok
       THEN /\ sqliteDir' = IF sqliteDir = "absent" THEN "writable" ELSE sqliteDir
            /\ retv' = TRUE
            /\ pc' = "return"
            /\ UNCHANGED exitCode
       ELSE /\ Crash
            /\ UNCHANGED <<sqliteDir, retv>>
    /\ UNCHANGED <<inputs, call, cwdWritable, envExists, attempt, createIdx, trace,
                   probeTrue, createFails, allOk, why, idx, success, invoked,
                   provRet, verRet, runNo, prevOk>>

----------------------------------------------------------------------------
(* setup_postgresql and setup_mysql: the two functions have the same shape *)

CheckInstalled_Inverted(db) ==
    /\ pc = "which" /\ cur = db
    /\ \E rc \in ExitStatuses, out \in Stdouts :
         /\ trace' = Append(trace, WhichCmd(db))
         /\ allOk' = (allOk /\ rc = 0)
         /\ IF ~Tolerant(rc, out)
            THEN pc' = "probe" /\ UNCHANGED <<retv, why>>
            ELSE pc' = "return" /\ retv' = FALSE /\ why' = "InstallMissing"
    /\ UNCHANGED <<inputs, call, fs, outer, attempt, createIdx, probeTrue, createFails>>

\* "which psql" / "which mysql": an absent installer returns False at once.
CheckInstalled(db) ==
    /\ pc = "which" /\ cur = db
    /\ \E rc \in ExitStatuses, out \in Stdouts :
         /\ trace' = Append(trace, WhichCmd(db))
         /\ allOk' = (allOk /\ rc = 0)
         /\ IF Tolerant(rc, out)
            THEN pc' = "probe" /\ UNCHANGED <<retv, why>>
            ELSE pc' = "return" /\ retv' = FALSE /\ why' = "InstallMissing"
    /\ UNCHANGED <<inputs, call, fs, outer, attempt, createIdx, probeTrue, createFails>>

CheckRunning_NoStart(db) ==
    /\ pc = "probe" /\ cur = db
    /\ \E rc \in ExitStatuses, out \in Stdouts :
         /\ trace' = Append(trace, ProbeCmd(db))
         /\ allOk' = (allOk /\ rc = 0)
         /\ pc' = "create"
         /\ probeTrue' = (probeTrue \/ Tolerant(rc, out))
    /\ UNCHANGED <<inputs, call, fs, outer, retv, why, attempt, createIdx, createFails>>

CheckRunning_AlwaysStart(db) ==
    /\ pc = "probe" /\ cur = db
    /\ \E rc \in ExitStatuses, out \in Stdouts :
         /\ trace' = Append(trace, ProbeCmd(db))
         /\ allOk' = (allOk /\ rc = 0)
         /\ pc' = "start"
         /\ probeTrue' = (probeTrue \/ Tolerant(rc, out))
    /\ UNCHANGED <<inputs, call, fs, outer, retv, why, attempt, createIdx, createFails>>

\* The check "is it running" made before any start is attempted.
CheckRunning(db) ==
    /\ pc = "probe" /\ cur = db
    /\ \E rc \in ExitStatuses, out \in Stdouts :
         /\ trace' = Append(trace, ProbeCmd(db))
         /\ allOk' = (allOk /\ rc = 0)
         /\ IF Tolerant(rc, out)
            THEN pc' = "create" /\ probeTrue' = TRUE
            ELSE pc' = "start" /\ UNCHANGED probeTrue
    /\ UNCHANGED <<inputs, call, fs, outer, retv, why, attempt, createIdx, createFails>>

StartService_Checked(db) ==
    /\ pc = "start" /\ cur = db
    /\ \E rc \in ExitStatuses, out \in Stdouts :
         /\ trace' = Append(trace, StartCmd(db, platform))
         /\ allOk' = (allOk /\ rc = 0)
         /\ IF Tolerant(rc, out)
            THEN pc' = "wait" /\ UNCHANGED <<retv, why>>
            ELSE pc' = "return" /\ retv' = FALSE /\ why' = "StartupTimeout"
    /\ attempt' = 0
    /\ UNCHANGED <<inputs, call, fs, outer, createIdx, probeTrue, createFails>>

\* The platform's start command; its result is not looked at.
StartService(db) ==
    /\ pc = "start" /\ cur = db
    /\ \E rc \in ExitStatuses, out \in Stdouts :
         /\ Tolerant(rc, out) \in BOOLEAN
         /\ trace' = Append(trace, StartCmd(db, platform))
         /\ allOk' = (allOk /\ rc = 0)
    /\ pc' = "wait"
    /\ attempt' = 0
    /\ UNCHANGED <<inputs, call, fs, outer, retv, why, createIdx, probeTrue, createFails>>

WaitProbe_NoCount(db) ==
    /\ pc = "wait" /\ cur = db
    /\ attempt < MaxAttempts
    /\ attempt' = attempt
    /\ \E rc \in ExitStatuses, out \in Stdouts :
         /\ trace' = Append(trace, ProbeCmd(db))
         /\ allOk' = (allOk /\ rc = 0)
         /\ IF Tolerant(rc, out)
            THEN pc' = "create" /\ probeTrue' = TRUE
            ELSE pc' = "sleep" /\ UNCHANGED probeTrue
    /\ UNCHANGED <<inputs, call, fs, outer, retv, why, createIdx, createFails>>

\* One iteration of "for _ in range(30)": the probe, and the break on true.
WaitProbe(db) ==
    /\ pc = "wait" /\ cur = db
    /\ attempt < MaxAttempts
    /\ attempt' = attempt + 1
    /\ \E rc \in ExitStatuses, out \in Stdouts :
         /\ trace' = Append(trace, ProbeCmd(db))
         /\ allOk' = (allOk /\ rc = 0)
         /\ IF Tolerant(rc, out)
            THEN pc' = "create" /\ probeTrue' = TRUE
            ELSE pc' = "sleep" /\ UNCHANGED probeTrue
    /\ UNCHANGED <<inputs, call, fs, outer, retv, why, createIdx, createFails>>

WaitSleep_OneShort(db) ==
    /\ pc = "sleep" /\ cur = db
    /\ trace' = Append(trace, SleepCmd)
    /\ IF attempt < MaxAttempts - 1
       THEN pc' = "wait" /\ UNCHANGED <<retv, why>>
       ELSE pc' = "return" /\ retv' = FALSE /\ why' = "StartupTimeout"
    /\ UNCHANGED <<inputs, call, fs, outer, attempt, createIdx, probeTrue, createFails,
                   allOk>>

\* time.sleep(1) closing an iteration; when the range is used up the else
\* branch of the for prints "failed to start" and returns False.
WaitSleep(db) ==
    /\ pc = "sleep" /\ cur = db
    /\ trace' = Append(trace, SleepCmd)
    /\ IF attempt < MaxAttempts
       THEN pc' = "wait" /\ UNCHANGED <<retv, why>>
       ELSE pc' = "return" /\ retv' = FALSE /\ why' = "StartupTimeout"
    /\ UNCHANGED <<inputs, call, fs, outer, attempt, createIdx, probeTrue, createFails,
                   allOk>>

CreateResource_StopOnFail(db) ==
    /\ pc = "create" /\ cur = db
    /\ \E rc \in ExitStatuses, out \in Stdouts :
         /\ trace' = Append(trace, CreateCmds(db)[createIdx])
         /\ allOk' = (allOk /\ rc = 0)
         /\ createFails' = IF Tolerant(rc, out) THEN createFails ELSE createFails + 1
         /\ IF createIdx < Len(CreateCmds(db)) /\ Tolerant(rc, out)
            THEN /\ createIdx' = createIdx + 1
                 /\ UNCHANGED <<pc, retv>>
            ELSE /\ pc' = "return"
                 /\ retv' = TRUE
                 /\ UNCHANGED createIdx
    /\ UNCHANGED <<inputs, call, fs, outer, why, attempt, probeTrue>>

CreateResource_Strict(db) ==
    /\ pc = "create" /\ cur = db
    /\ \E rc \in ExitStatuses, out \in Stdouts :
         /\ trace' = Append(trace, CreateCmds(db)[createIdx])
         /\ allOk' = (allOk /\ rc = 0)
         /\ createFails' = IF Tolerant(rc, out) THEN createFails ELSE createFails + 1
    /\ IF createIdx < Len(CreateCmds(db))
       THEN /\ createIdx' = createIdx + 1
            /\ UNCHANGED <<pc, retv>>
       ELSE /\ pc' = "return"
            /\ retv' = (createFails' = 0)
            /\ UNCHANGED createIdx
    /\ UNCHANGED <<inputs, call, fs, outer, why, attempt, probeTrue>>

\* One creation command, check=False, result dropped; after the last one the
\* function returns True.
CreateResource(db) ==
    /\ pc = "create" /\ cur = db
    /\ \E rc \in ExitStatuses, out \in Stdouts :
         /\ trace' = Append(trace, CreateCmds(db)[createIdx])
         /\ allOk' = (allOk /\ rc = 0)
         /\ createFails' = IF Tolerant(rc, out) THEN createFails ELSE createFails + 1
    /\ IF createIdx < Len(CreateCmds(db))
       THEN /\ createIdx' = createIdx + 1
            /\ UNCHANGED <<pc, retv>>
       ELSE /\ pc' = "return"
            /\ retv' = TRUE
            /\ UNCHANGED createIdx
    /\ UNCHANGED <<inputs, call, fs, outer, why, attempt, probeTrue>>

Provision(db) ==
    \/ CheckInstalled(db)
    \/ CheckRunning(db)
    \/ StartService(db)
    \/ WaitProbe(db)
    \/ WaitSleep(db)
    \/ CreateResource(db)

setup_postgresql == Provision("postgresql")

setup_mysql == Provision("mysql")

setup_postgresql_replica_AlwaysFalse(base) == FALSE

\* setup_postgresql_replica: what it returns given the base function's result
\* (after the base succeeded it only prints and runs no command).
setup_postgresql_replica(base) == IF ~base THEN FALSE ELSE TRUE

----------------------------------------------------------------------------
(* main: the loop body after the provisioner, and the verdict *)

Accumulate_Overwrite(acc, r) == r

\* success &= <provisioner>()
Accumulate(acc, r) == acc /\ r

TestGate_FlagOnly(t, acc) == t

\* if args.test and success:
TestGate(t, acc) == t /\ acc

\* sys.exit(1) on failure, a normal end otherwise
ExitStatus(acc) == IF acc THEN 0 ELSE 1

\* The Provision Result main receives: True, or False with the printed reason.
ResultName(r) == IF r THEN "Success" ELSE IF why # "" THEN why ELSE "Failed"

ReturnToMain_StopOnFailure(rep) ==
    /\ pc = "return"
    /\ LET viaReplica == cur = "postgresql" /\ rep
           r == IF viaReplica THEN setup_postgresql_replica(retv) ELSE retv
           acc == Accumulate(success, r)
       IN /\ success' = acc
          /\ provRet' = [provRet EXCEPT ![cur] = ResultName(r)]
          /\ IF TestGate(testAfter, acc)
             THEN pc' = "test" /\ UNCHANGED idx
             ELSE pc' = "loop"
                  /\ idx' = IF acc THEN idx + 1 ELSE Len(databases) + 1
    /\ UNCHANGED <<inputs, call, fs, local, exitCode, invoked, verRet, runNo, prevOk>>

\* The provisioner returns into main (through setup_postgresql_replica when
\* rep, which is args.replica, is set), then the test gate.
ReturnToMain(rep) ==
    /\ pc = "return"
    /\ LET viaReplica == cur = "postgresql" /\ rep
           r == IF viaReplica THEN setup_postgresql_replica(retv) ELSE retv
           acc == Accumulate(success, r)
       IN /\ success' = acc
          /\ provRet' = [provRet EXCEPT ![cur] = ResultName(r)]
          /\ IF TestGate(testAfter, acc)
             THEN pc' = "test" /\ UNCHANGED idx
             ELSE pc' = "loop" /\ idx' = idx + 1
    /\ UNCHANGED <<inputs, call, fs, local, exitCode, invoked, verRet, runNo, prevOk>>

\* os.access("test-data/sqlite", os.W_OK)
access_W_OK == sqliteDir = "writable"

Verify_IgnoreResult ==
    /\ pc = "test"
    /\ \E rc \in ExitStatuses, out \in Stdouts :
         LET ok == IF cur = "sqlite" THEN access_W_OK ELSE Tolerant(rc, out)
         IN /\ trace' = IF cur = "sqlite" THEN trace ELSE Append(trace, TestCmd(cur))
            /\ verRet' = [verRet EXCEPT ![cur] = IF ok THEN "ok" ELSE "fail"]
            /\ success' = success
    /\ idx' = idx + 1
    /\ pc' = "loop"
    /\ UNCHANGED <<inputs, call, fs, retv, attempt, createIdx, probeTrue, createFails,
                   allOk, why, exitCode, invoked, provRet, runNo, prevOk>>

\* test_connection(db) and the branch on its result.
Verify ==
    /\ pc = "test"
    /\ \E rc \in ExitStatuses, out \in Stdouts :
         LET ok == IF cur = "sqlite" THEN access_W_OK ELSE Tolerant(rc, out)
         IN /\ trace' = IF cur = "sqlite" THEN trace ELSE Append(trace, TestCmd(cur))
            /\ verRet' = [verRet EXCEPT ![cur] = IF ok THEN "ok" ELSE "fail"]
            /\ success' = IF ok THEN success ELSE FALSE
    /\ idx' = idx + 1
    /\ pc' = "loop"
    /\ UNCHANGED <<inputs, call, fs, retv, attempt, createIdx, probeTrue, createFails,
                   allOk, why, exitCode, invoked, provRet, runNo, prevOk>>

\* After the loop: the banner and the exit status.
Finish ==
    /\ pc = "loop"
    /\ idx > Len(databases)
    /\ exitCode' = ExitStatus(success)
    /\ pc' = "done"
    /\ UNCHANGED <<inputs, call, fs, local, idx, success, invoked, provRet, verRet,
                   runNo, prevOk>>

\* The operator runs the same command line again; the file system is as the
\* previous invocation left it.
Rerun ==
    /\ pc \in {"done", "crashed"}
    /\ runNo < MaxRuns
    /\ runNo' = runNo + 1
    /\ prevOk' = {b \in Backends : provRet[b] = "Success"}
    /\ pc' = "create_env_file"
    /\ idx' = 1
    /\ success' = TRUE
    /\ exitCode' = -1
    /\ retv' = FALSE
    /\ attempt' = 0
    /\ createIdx' = 1
    /\ trace' = <<>>
    /\ probeTrue' = FALSE
    /\ createFails' = 0
    /\ allOk' = TRUE
    /\ why' = ""
    /\ invoked' = <<>>
    /\ provRet' = NoResults
    /\ verRet' = NoResults
    /\ UNCHANGED <<inputs, call, fs>>

Next ==
    \/ create_env_file
    \/ Dispatch
    \/ setup_sqlite
    \/ setup_postgresql
    \/ setup_mysql
    \/ ReturnToMain(wantReplica)
    \/ Verify
    \/ Finish
    \/ Rerun

Spec == Init /\ [][Next]_vars

----------------------------------------------------------------------------
(* run_command called on its own, with every combination of its arguments *)

CmdInit ==
    /\ databases = <<"sqlite">>
    /\ testAfter = FALSE
    /\ wantReplica = FALSE
    /\ platform = "linux"
    /\ cwdWritable = TRUE
    /\ envExists = FALSE
    /\ sqliteDir = "absent"
    /\ pc = "run_command"
    /\ idx = 1
    /\ success = TRUE
    /\ exitCode = -1
    /\ retv = FALSE
    /\ attempt = 0
    /\ createIdx = 1
    /\ trace = <<>>
    /\ probeTrue = FALSE
    /\ createFails = 0
    /\ allOk = TRUE
    /\ why = ""
    /\ invoked = <<>>
    /\ provRet = NoResults
    /\ verRet = NoResults
    /\ runNo = 1
    /\ prevOk = {}
    /\ call = NoCall

call_run_command ==
    /\ pc = "run_command"
    /\ \E rc \in CmdExitStatuses, out \in CmdStdouts, check \in BOOLEAN,
          capture \in BOOLEAN :
         call' = [made |-> TRUE, rc |-> rc, stdout |-> out, check |-> check,
                  capture_output |-> capture,
                  result |-> run_command(rc, out, check, capture)]
    /\ UNCHANGED <<inputs, fs, local, outer, pc>>

SpecCmd == CmdInit /\ [][call_run_command]_vars

----------------------------------------------------------------------------
(* Properties *)

Requested == {databases[i] : i \in DOMAIN databases}

Pos(b) == CHOOSE i \in DOMAIN databases : databases[i] = b

CreateSet(b) == {CreateCmds(b)[i] : i \in DOMAIN CreateCmds(b)}

IsPrefix(s, t) == Len(s) <= Len(t) /\ s = SubSeq(t, 1, Len(s))

\* A client-server provisioner is returning because its wait loop ran out.
TimedOut == pc = "return" /\ cur \in ClientServer /\ why = "StartupTimeout"

\* C1 as stated: when a client-server backend's probe never returns true,
\* the probe has been invoked exactly 30 times in the whole provisioning by
\* the time the timeout is reported.
C1_ThirtyProbesInTotal ==
    TimedOut => Count(trace, {ProbeCmd(cur)}) = 30

\* C1, amended: when a client-server backend's probe never returns true, the
\* probe has been invoked exactly 31 times by the time the timeout is
\* reported: once before the start command and 30 times in the wait loop.
C1_ProbeCountOnTimeout ==
    TimedOut =>
        /\ ~probeTrue
        /\ Count(trace, {ProbeCmd(cur)}) = 31
        /\ trace[2] = ProbeCmd(cur)
        /\ trace[3] = StartCmd(cur, platform)
        /\ Count(SubSeq(trace, 4, Len(trace)), {ProbeCmd(cur)}) = 30

C1_Witness == TimedOut /\ cur = "mysql" /\ ~probeTrue

\* C2: a client-server provisioner whose probe never returns true returns
\* False, and from then on the accumulated result is false and the exit
\* status of the run is 1, whatever the other backends do.
C2_TimeoutFailsRun ==
    /\ TimedOut => retv = FALSE
    /\ \A b \in ClientServer :
         provRet[b] = "StartupTimeout" =>
            /\ ~success
            /\ exitCode # 0
            /\ pc \in {"done", "crashed"} => exitCode = 1

C2_Witness ==
    /\ pc = "done"
    /\ provRet["postgresql"] = "StartupTimeout"
    /\ provRet["mysql"] = "Success"
    /\ exitCode = 1

\* C3: a creation command of a client-server backend is in the trace only if
\* a readiness probe of the same provisioning returned true before it; once
\* the wait loop has timed out no creation command of that backend is issued.
C3_CreateOnlyAfterReady ==
    /\ pc = "create" => probeTrue
    /\ Count(trace, AllCreateCmds) > 0 =>
         /\ probeTrue
         /\ \E i \in DOMAIN trace :
              /\ trace[i] \in ProbeCmds
              /\ \A j \in DOMAIN trace : trace[j] \in AllCreateCmds => i < j
    /\ why = "StartupTimeout" => Count(trace, AllCreateCmds) = 0
    /\ \A b \in ClientServer :
         provRet[b] = "StartupTimeout" => Count(trace, CreateSet(b)) = 0

C3_Witness ==
    /\ probeTrue
    /\ attempt = MaxAttempts
    /\ Count(trace, CreateSet("postgresql")) = 3

AllSucceeded ==
    \A b \in Requested :
        provRet[b] = "Success" /\ (testAfter => verRet[b] = "ok")

Verdict == pc \in {"done", "crashed"} => (exitCode = 0 <=> AllSucceeded)

\* C4: the run ends with exit status 0 iff every requested provisioner
\* returned Success and, with --test, every requested verification returned
\* true; a failed verification makes the result false, and within a run the
\* accumulated result never goes from false back to true.
C4_VerdictIffAllSucceed ==
    [][ /\ Verdict'
        /\ (\E b \in Backends : verRet'[b] = "fail") => ~success'
        /\ (~success /\ runNo' = runNo) => ~success' ]_vars

C4_Witness ==
    /\ pc = "done"
    /\ testAfter
    /\ databases = AllDatabases
    /\ \A b \in Requested : provRet[b] = "Success"
    /\ verRet["mysql"] = "fail"
    /\ exitCode = 1

\* C5: a run for a single backend without flags, in which every command
\* exited with status 0 (installer found, first probe true, every creation
\* command succeeded), ends with exit status 0.
C5_StubAllGood ==
    (pc = "done" /\ Len(databases) = 1 /\ ~testAfter /\ ~wantReplica /\ allOk) =>
        /\ exitCode = 0
        /\ provRet[databases[1]] = "Success"
        /\ databases[1] \in ClientServer =>
             trace = <<WhichCmd(databases[1]), ProbeCmd(databases[1])>>
                        \o CreateCmds(databases[1])

C5_Witness ==
    /\ pc = "done"
    /\ databases = <<"postgresql">>
    /\ ~testAfter /\ ~wantReplica
    /\ allOk
    /\ Len(trace) = 5
    /\ exitCode = 0

\* C6: with the selection "all" and no flags the provisioners are called in
\* the order sqlite, postgresql, mysql, each once, and a run that reaches
\* its verdict has called all three whatever they returned.
C6_AllCanonicalOrder ==
    (Len(databases) = 3 /\ ~testAfter /\ ~wantReplica) =>
        /\ IsPrefix(invoked, <<"sqlite", "postgresql", "mysql">>)
        /\ pc = "done" => invoked = <<"sqlite", "postgresql", "mysql">>

C6_Witness ==
    /\ pc = "done"
    /\ ~testAfter /\ ~wantReplica
    /\ invoked = <<"sqlite", "postgresql", "mysql">>
    /\ provRet["postgresql"] = "InstallMissing"
    /\ provRet["mysql"] = "StartupTimeout"

\* The loop iteration of b is over.
Finished(b) == b \in Requested /\ Pos(b) < idx

\* --test is set and the accumulated result is still true right after b's
\* provisioning: b and everything before it succeeded.
GateOpen(b) ==
    /\ testAfter
    /\ \A e \in Requested :
         /\ Pos(e) <= Pos(b) => provRet[e] = "Success"
         /\ Pos(e) < Pos(b) => verRet[e] = "ok"

\* C7: test_connection is called for a backend iff --test is set and the
\* accumulated result is true right after that backend's provisioning.
C7_VerificationGate ==
    /\ pc = "test" => GateOpen(cur)
    /\ \A b \in Backends :
         /\ verRet[b] # "none" => b \in Requested /\ GateOpen(b)
         /\ (Finished(b) /\ GateOpen(b)) => verRet[b] # "none"

C7_Witness ==
    /\ pc = "done"
    /\ testAfter
    /\ verRet["sqlite"] = "ok"
    /\ provRet["postgresql"] = "StartupTimeout"
    /\ verRet["postgresql"] = "none"
    /\ provRet["mysql"] = "Success"
    /\ verRet["mysql"] = "none"

\* The program with args.replica read as rep.
NextAs(rep) ==
    \/ create_env_file
    \/ Dispatch
    \/ setup_sqlite
    \/ setup_postgresql
    \/ setup_mysql
    \/ ReturnToMain(rep)
    \/ Verify
    \/ Finish
    \/ Rerun

\* C8: every step of a run for postgresql alone with --replica (and without
\* --test) is a step the run without --replica takes on the same command
\* results: same commands, same returned value, same exit status.
C8_ReplicaRefinesBase ==
    [][ (databases = <<"postgresql">> /\ ~testAfter /\ wantReplica)
            => NextAs(FALSE) ]_vars

C8_Witness ==
    /\ pc = "done"
    /\ databases = <<"postgresql">>
    /\ ~testAfter /\ wantReplica
    /\ Count(trace, CreateSet("postgresql")) = 3
    /\ exitCode = 0

\* C9: a run for sqlite alone without flags issues no command and no sleep,
\* ends with exit status 0 when it reaches its verdict, and cannot fail when
\* the working directory is writable.
C9_SqliteNoCommands ==
    (databases = <<"sqlite">> /\ ~testAfter /\ ~wantReplica) =>
        /\ trace = <<>>
        /\ pc \notin {"which", "probe", "start", "wait", "sleep", "create", "test"}
        /\ pc = "done" => exitCode = 0
        /\ cwdWritable => pc # "crashed" /\ exitCode # 1

C9_Witness ==
    /\ databases = <<"sqlite">>
    /\ ~testAfter /\ ~wantReplica
    /\ cwdWritable
    /\ runNo = 1
    /\ pc = "done"
    /\ exitCode = 0
    /\ trace = <<>>

\* b's provisioner has returned in this invocation, which is not the first,
\* after a first invocation in which it returned Success; this time it was
\* found ready and every one of its creation commands failed.
SecondRunAllExist(b) ==
    /\ runNo > 1
    /\ b \in prevOk
    /\ provRet[b] # "none"
    /\ invoked # <<>> /\ invoked[Len(invoked)] = b
    /\ probeTrue
    /\ createFails = Len(CreateCmds(b))

\* C10: a client-server provisioner that returned Success in one invocation
\* returns Success again in the next when it is installed and ready and every
\* creation command fails.
C10_SecondRunStillSuccess ==
    \A b \in ClientServer : SecondRunAllExist(b) => provRet[b] = "Success"

C10_Witness == SecondRunAllExist("mysql") /\ provRet["mysql"] = "Success"

Terminal == pc \in {"done", "crashed"}

\* C11 as stated: an error raised inside one backend's provisioning ends only
\* that provisioning: the backend is recorded as failed, every requested
\* backend is still provisioned, and the run ends with its verdict.
C11_ErrorAbortsOnlyBackend ==
    (Terminal /\ invoked # <<>>) =>
        /\ pc = "done"
        /\ \A b \in Requested : provRet[b] # "none"
        /\ Len(invoked) = Len(databases)

\* C12: a provisioner that returns False does not end the loop: main goes
\* on to the next database, and a run for "all" that reaches its verdict has
\* provisioned all three even though an earlier one failed; the later
\* provisioner runs its own sequence from the installer check on.
C12_FailureDoesNotStopLoop ==
    /\ (pc = "loop" /\ ~success /\ idx <= Len(databases)) => ENABLED Dispatch
    /\ (pc = "done" /\ Len(databases) = 3) =>
          \A b \in Backends : provRet[b] # "none"
    /\ (pc = "return" /\ ~success /\ cur = "mysql") =>
          /\ trace[1] = WhichCmd("mysql")
          /\ retv => /\ trace[2] = ProbeCmd("mysql")
                     /\ SubSeq(trace, Len(trace) - 3, Len(trace)) = CreateCmds("mysql")

C12_Witness ==
    /\ pc = "done"
    /\ databases = AllDatabases
    /\ provRet["postgresql"] = "StartupTimeout"
    /\ provRet["mysql"] = "Success"
    /\ Count(trace, {SleepCmd}) = 5
    /\ Count(trace, CreateSet("mysql")) = 4

\* v is s without its leading and trailing spaces.
IsTrimOf(v, s) ==
    \E i \in 1..(Len(s) + 1), j \in 0..Len(s) :
        /\ v = SubSeq(s, i, j)
        /\ \A k \in 1..(i - 1) : s[k] = " "
        /\ \A k \in (j + 1)..Len(s) : s[k] = " "
        /\ v # <<>> => (v[1] # " " /\ v[Len(v)] # " ")

\* C13 as stated: for both values of capture_output, check=True raises on a
\* non-zero exit, and check=False raises nothing on a non-zero exit and
\* returns a value that reads as false.
C13_TolerantReadsFalse ==
    (call.made /\ call.rc # 0) =>
        IF call.check
        THEN call.result.raised
        ELSE ~call.result.raised /\ ~Truthy(call.result)

\* C13, amended: for both values of capture_output, check=True raises on a
\* non-zero exit and check=False raises nothing; what a tolerant call returns
\* after a non-zero exit is False when capture_output is false, and the
\* trimmed standard output, whatever the exit status, when it is true.
C13_CommandRunnerContract ==
    call.made =>
        /\ call.result.raised <=> (call.check /\ call.rc # 0)
        /\ (~call.result.raised /\ ~call.capture_output) =>
              /\ call.result.kind = "bool"
              /\ call.result.value <=> (call.rc = 0)
        /\ (~call.result.raised /\ call.capture_output) =>
              /\ call.result.kind = "str"
              /\ IsTrimOf(call.result.value, call.stdout)

C13_Witness ==
    /\ call.made
    /\ ~call.check
    /\ call.rc = 1
    /\ call.capture_output
    /\ ~call.result.raised
    /\ call.stdout = <<" ", "1", " ">>
    /\ call.result.kind = "str"
    /\ call.result.value = <<"1">>

\* C14: the start command is issued at most once in a provisioning, third
\* in the trace, right after a first probe that returned false; when the
\* first probe returns true the creation commands follow it directly, with
\* no start command and no sleep.
C14_StartOnlyAfterFailedProbe ==
    /\ Count(trace, StartCmds) <= 1
    /\ pc = "start" => (~probeTrue /\ trace = <<WhichCmd(cur), ProbeCmd(cur)>>)
    /\ \A i \in DOMAIN trace :
         trace[i] \in StartCmds => (i = 3 /\ trace[2] \in ProbeCmds)
    /\ (probeTrue /\ Count(trace, ProbeCmds) = 1) =>
         /\ Count(trace, StartCmds \cup {SleepCmd}) = 0
         /\ Len(trace) > 2 => trace[3] \in AllCreateCmds
    /\ (pc = "create" /\ attempt = 0) => Count(trace, ProbeCmds) = 1

C14_Witness ==
    /\ pc = "wait"
    /\ attempt = 0
    /\ ~probeTrue
    /\ trace = <<WhichCmd("mysql"), ProbeCmd("mysql"), StartCmd("mysql", "darwin")>>

InProvisioner == pc \in {"probe", "start", "wait", "sleep", "create"}

\* C15: when the installer check of a client-server backend fails the
\* provisioner returns False at once as InstallMissing; the which command is
\* the only command of that provisioning: no probe, no start, no sleep, no
\* creation command.
C15_InstallMissingReturnsAtOnce ==
    /\ pc = "probe" => allOk
    /\ (Len(trace) = 1 /\ ~allOk) => (why = "InstallMissing" /\ ~InProvisioner)
    /\ why = "InstallMissing" =>
         /\ Len(trace) = 1
         /\ trace[1] \in {WhichCmd(b) : b \in ClientServer}
         /\ pc = "return" => ~retv
    /\ \A b \in ClientServer :
         provRet[b] = "InstallMissing" =>
            Count(trace, {ProbeCmd(b), StartCmd(b, platform)} \cup CreateSet(b)) = 0

C15_Witness ==
    /\ pc = "return"
    /\ cur = "mysql"
    /\ why = "InstallMissing"
    /\ provRet["postgresql"] = "InstallMissing"

\* C16 as stated: in the wait loop a sleep occurs only between two probes:
\* none before the first attempt, none after a probe that returned true, and
\* none after the last failed attempt, so on a timeout the sleeps are one
\* fewer than the attempts.
C16_SleepOnlyBetweenProbes ==
    /\ (pc = "wait" /\ attempt = 0) => Count(trace, {SleepCmd}) = 0
    /\ (pc = "create" /\ createIdx = 1) => trace[Len(trace)] \in ProbeCmds
    /\ TimedOut =>
         /\ Count(trace, {SleepCmd}) = attempt - 1
         /\ trace[Len(trace)] # SleepCmd

\* C17: whatever the start command returns, the wait loop runs after it; a
\* probe of the loop that returns true leads to the creation commands, and
\* the provisioner then returns True.
C17_StartFailureTolerated ==
    [][ /\ pc = "start" =>
              (pc' = "wait" /\ attempt' = 0 /\ retv' = retv /\ why' = why)
        /\ (pc = "wait" /\ probeTrue') => pc' = "create"
        /\ (pc = "create" /\ pc' = "return") =>
              (retv' /\ Count(trace', CreateSet(cur)) = Len(CreateCmds(cur)))
      ]_vars

C17_Witness ==
    /\ pc = "done"
    /\ databases = <<"postgresql">>
    /\ Count(trace, StartCmds) = 1
    /\ probeTrue
    /\ attempt = MaxAttempts
    /\ provRet["postgresql"] = "Success"
    /\ exitCode = 0

\* C18: once a client-server backend is ready its creation commands are
\* issued in their order, each exactly once, whether or not earlier ones
\* failed, and the provisioner returns True however many of them failed.
C18_CreationBestEffort ==
    /\ pc = "create" =>
         /\ SubSeq(trace, Len(trace) - createIdx + 2, Len(trace))
               = SubSeq(CreateCmds(cur), 1, createIdx - 1)
         /\ createFails <= createIdx - 1
    /\ (pc = "return" /\ probeTrue) =>
         /\ retv
         /\ SubSeq(trace, Len(trace) - Len(CreateCmds(cur)) + 1, Len(trace))
               = CreateCmds(cur)
         /\ \A c \in CreateSet(cur) : Count(trace, {c}) = 1

C18_Witness ==
    /\ pc = "return"
    /\ cur = "postgresql"
    /\ probeTrue
    /\ createFails = 2
    /\ retv

\* C19 as stated: without --test the file-based backend is reported as
\* Success only if the provisioned directory is writable.
C19_SqliteSuccessOnlyIfWritable ==
    (~testAfter /\ provRet["sqlite"] = "Success") => sqliteDir = "writable"

\* An upper bound on the steps the invocation can still take.
Measure ==
    IF Terminal THEN 0
    ELSE IF pc = "create_env_file" THEN (Len(databases) + 2) * 75
    ELSE (Len(databases) - idx + 1) * 75 +
         CASE pc = "loop" -> 74
           [] pc \in {"which", "setup_sqlite"} -> 73
           [] pc = "probe" -> 2 * MaxAttempts + 12
           [] pc = "start" -> 2 * MaxAttempts + 11
           [] pc = "wait" -> 2 * (MaxAttempts - attempt) + 10
           [] pc = "sleep" -> 2 * (MaxAttempts - attempt) + 11
           [] pc = "create" -> 10 - createIdx
           [] pc = "return" -> 2
           [] pc = "test" -> 1

NoRepeat(seq) == \A i, j \in DOMAIN seq : seq[i] = seq[j] => i = j

\* C20: an invocation that has not ended can always take a step, and every
\* step of it lowers a bound on the steps left, so it ends: the wait loop is
\* left only on a true probe or after its last iteration, and no backend is
\* provisioned twice.
C20_RunTerminates ==
    /\ [](~Terminal => ENABLED Next)
    /\ [][ /\ runNo' = runNo => (Measure' < Measure /\ Measure' >= 0)
           /\ NoRepeat(invoked')
           /\ (pc = "wait" /\ pc' = "create") => probeTrue'
           /\ (pc = "sleep" /\ pc' = "return") => attempt = MaxAttempts
           /\ pc \in {"wait", "sleep"} => pc' \in {"wait", "sleep", "create", "return"}
         ]_vars

C20_Witness ==
    /\ pc = "done"
    /\ invoked = AllDatabases
    /\ provRet["postgresql"] = "StartupTimeout"
    /\ provRet["mysql"] = "StartupTimeout"
    /\ exitCode = 1

====
